---- MODULE Spec2Model ----
(***************************************************************************)
(* A model of markdown_editor.py: the Tk text widget that holds the        *)
(* document, its highlight tags, and the handlers that lint and format it. *)
(*                                                                         *)
(* A document is a sequence of one-character strings.  Offsets are 0-based *)
(* as in Python; At and Slice translate them to TLA+ sequences.            *)
(***************************************************************************)
EXTENDS Integers, Sequences, FiniteSets, TLC

VARIABLES
    text,            \* the characters in text_area, without the newline Tk appends
    tags,            \* tag name -> set of offsets of the characters carrying it
    lint_indicator,  \* what the status bar's lint label shows
    diags,           \* the tag_add calls of the lint pass that ran for this text
    synced,          \* on_text_change has run since the text last changed
    fmt,             \* what the last handler did, when it was format_markdown
    edits            \* number of handlers so far that changed the text

vars == <<text, tags, lint_indicator, diags, synced, fmt, edits>>

----------------------------------------------------------------------------
(* Bounds of the model. *)

MaxBody == 2

MaxEdits == 6

MaxFormats == 2

----------------------------------------------------------------------------
(* Characters and slices. *)

NL == "\n"

Whitespace == {" ", NL}

IsSpace(ch) == ch \in Whitespace

At(c, i) == c[i + 1]

Slice(c, a, b) == SubSeq(c, a + 1, b)

Min(a, b) == IF a <= b THEN a ELSE b

SetMax(S) == CHOOSE x \in S : \A y \in S : y <= x

SetMin(S) == CHOOSE x \in S : \A y \in S : x <= y

StartsWithAt(c, i, p) ==
    /\ i + Len(p) <= Len(c)
    /\ \A k \in 1..Len(p) : c[i + k] = p[k]

(* The first offset from i on that holds no whitespace, or the length. *)
RECURSIVE SkipSpaces(_, _)
SkipSpaces(c, i) ==
    IF i >= Len(c) \/ ~IsSpace(At(c, i)) THEN Min(i, Len(c))
    ELSE SkipSpaces(c, i + 1)

(* The offset of the end of the line that holds offset i. *)
RECURSIVE LineEnd(_, _)
LineEnd(s, i) ==
    IF i >= Len(s) \/ At(s, i) = NL THEN Min(i, Len(s)) ELSE LineEnd(s, i + 1)

RECURSIVE Flatten(_)
Flatten(ss) == IF ss = <<>> THEN <<>> ELSE Head(ss) \o Flatten(Tail(ss))

(* text_area.get(1.0, tk.END): Tk returns the text with its final newline. *)
Content(t) == t \o <<NL>>

----------------------------------------------------------------------------
(* The frontmatter pattern  ^---\s*\n(.*?)\n---\s*\n  under re.DOTALL,     *)
(* matched at offset 0 with Python's backtracking order: the opening \s*   *)
(* is greedy (the longest run that still lets the rest match), .*? is lazy *)
(* (the first closing delimiter), the closing \s* is greedy.               *)

Dashes == <<"-", "-", "-">>

NlDashes == <<NL, "-", "-", "-">>

(* The offsets where  \s*\n  started at offset i can end. *)
DelimEnds(c, i) == { e \in (i + 1)..SkipSpaces(c, i) : At(c, e - 1) = NL }

(* \n---\s*\n  matches at offset p. *)
CloseAt(c, p) == StartsWithAt(c, p, NlDashes) /\ DelimEnds(c, p + 4) # {}

Closers(c, from) == { p \in from..Len(c) : CloseAt(c, p) }

NoMatch == [matched |-> FALSE, end |-> 0, g1s |-> 0, g1e |-> 0]

FmMatch(c) ==
    IF ~StartsWithAt(c, 0, Dashes) THEN NoMatch
    ELSE LET opens == { e \in DelimEnds(c, 3) : Closers(c, e) # {} }
         IN  IF opens = {} THEN NoMatch
             ELSE LET e1 == SetMax(opens)
                      p  == SetMin(Closers(c, e1))
                  IN  [matched |-> TRUE,
                       end     |-> SetMax(DelimEnds(c, p + 4)),
                       g1s     |-> e1,
                       g1e     |-> p]

has_frontmatter(c) == FmMatch(c).matched

(* re.sub(pattern, '', content, count=1): the content without the match. *)
ReSubFm(c) ==
    LET m == FmMatch(c)
    IN  IF m.matched THEN Slice(c, m.end, Len(c)) ELSE c

(* re.split(pattern, content, maxsplit=1): the parts around the match. *)
ReSplitFm(c) ==
    LET m == FmMatch(c)
    IN  IF m.matched THEN << <<>>, Slice(c, m.end, Len(c)) >> ELSE << c >>

(* re.match(pattern, content).group(0) *)
Group0(c) == Slice(c, 0, FmMatch(c).end)

----------------------------------------------------------------------------
(* yaml.safe_load on the captured group: TRUE when it raises YAMLError.    *)
(* The library is not part of the repository; this is its verdict on       *)
(* metadata written with the characters the model uses (plain scalars,     *)
(* '#' comments, flow sequences '[' ... ']'): a flow sequence must be      *)
(* closed, a ']' needs an open '[', and nothing but comments may follow a  *)
(* complete top-level node.                                                *)

RECURSIVE YamlScan(_, _, _, _)
YamlScan(s, i, depth, st) ==
    IF i >= Len(s) THEN depth > 0
    ELSE LET ch == At(s, i) IN
         CASE st = "start" ->
                IF IsSpace(ch) THEN YamlScan(s, i + 1, depth, "start")
                ELSE IF ch = "#" THEN YamlScan(s, LineEnd(s, i), depth, "start")
                ELSE IF ch = "[" THEN YamlScan(s, i + 1, depth + 1, "start")
                ELSE IF ch = "]"
                     THEN depth = 0 \/ YamlScan(s, i + 1, depth - 1, "after")
                ELSE YamlScan(s, i + 1, depth, "scalar")
           [] st \in {"scalar", "gap"} ->
                IF IsSpace(ch) THEN YamlScan(s, i + 1, depth, "gap")
                ELSE IF ch = "#" /\ st = "gap"
                     THEN YamlScan(s, LineEnd(s, i), depth, "after")
                ELSE IF ch = "[" /\ depth > 0 THEN TRUE
                ELSE IF ch = "]" /\ depth > 0
                     THEN YamlScan(s, i + 1, depth - 1, "after")
                ELSE YamlScan(s, i + 1, depth, "scalar")
           [] OTHER ->
                IF IsSpace(ch) THEN YamlScan(s, i + 1, depth, "after")
                ELSE IF ch = "#" THEN YamlScan(s, LineEnd(s, i), depth, "after")
                ELSE IF ch = "]" /\ depth > 0
                     THEN YamlScan(s, i + 1, depth - 1, "after")
                ELSE TRUE

YamlError(s) == YamlScan(s, 0, 0, "start")

(* extract_frontmatter(content)[1]: is_valid. *)
extract_frontmatter(c) ==
    LET m == FmMatch(c)
    IN  IF m.matched THEN ~YamlError(Slice(c, m.g1s, m.g1e)) ELSE FALSE

----------------------------------------------------------------------------
(* The three body patterns, each scanned as re.finditer scans: left to     *)
(* right, the next search starting where the last match ended.             *)

Markers == {"-", "*", "+"}

(* ^(\s*[-*+])([^\s]) under re.MULTILINE tried at offset pos: the end of   *)
(* the match, or 0 when there is none.  \s* takes the whole run of         *)
(* whitespace, line breaks included, since a marker is no whitespace.      *)
ListMatchEnd(c, pos) ==
    LET j == SkipSpaces(c, pos)
    IN  IF /\ (pos = 0 \/ At(c, pos - 1) = NL)
           /\ j + 1 < Len(c)
           /\ At(c, j) \in Markers
           /\ ~IsSpace(At(c, j + 1))
        THEN j + 2 ELSE 0

RECURSIVE FindList(_, _)
FindList(c, pos) ==
    IF pos >= Len(c) THEN <<>>
    ELSE IF ListMatchEnd(c, pos) > 0
         THEN <<[ms |-> pos, me |-> ListMatchEnd(c, pos)]>>
              \o FindList(c, ListMatchEnd(c, pos))
         ELSE FindList(c, pos + 1)

(* (#[^#\s]) *)
RECURSIVE FindHeading(_, _)
FindHeading(c, pos) ==
    IF pos + 2 > Len(c) THEN <<>>
    ELSE IF At(c, pos) = "#" /\ At(c, pos + 1) # "#" /\ ~IsSpace(At(c, pos + 1))
         THEN <<[ms |-> pos, me |-> pos + 2]>> \o FindHeading(c, pos + 2)
         ELSE FindHeading(c, pos + 1)

EmptyLink == <<"[", "]", "(", ")">>

(* (\[\]\(\)) *)
RECURSIVE FindLink(_, _)
FindLink(c, pos) ==
    IF pos + 4 > Len(c) THEN <<>>
    ELSE IF StartsWithAt(c, pos, EmptyLink)
         THEN <<[ms |-> pos, me |-> pos + 4]>> \o FindLink(c, pos + 4)
         ELSE FindLink(c, pos + 1)

----------------------------------------------------------------------------
(* Text indices.  lint_markdown turns an offset of the string it scans     *)
(* into "line.col"; Tk resolves "line.col" and "1.0+Nc" against the text   *)
(* the widget holds, which ends with the final newline.                    *)

(* content_before.count('\n') + 1 *)
LineOf(c, off) == Cardinality({ k \in 0..(off - 1) : At(c, k) = NL }) + 1

(* len(content_before.split('\n')[-1]) *)
ColOf(c, off) ==
    off - SetMax({0} \cup { k + 1 : k \in { x \in 0..(off - 1) : At(c, x) = NL } })

(* The offset in w of the first character of line n (1-based), n <= lines. *)
LineStartOffset(w, n) ==
    IF n = 1 THEN 0
    ELSE CHOOSE k \in 1..Len(w) : At(w, k - 1) = NL /\ LineOf(w, k) = n

(* Tk's "line.col": past the last line it is the end of the text, past the *)
(* end of the line it is the line's newline.                               *)
TkLineCol(w, line, col) ==
    IF line > LineOf(w, Len(w)) - 1 THEN Len(w)
    ELSE LET st == LineStartOffset(w, line)
         IN  Min(st + col, LineEnd(w, st))

(* Tk's "1.0+Nc": N characters on, at most the end of the text. *)
TkChars(w, n) == Min(n, Len(w))

ErrorTags == {"error_heading", "error_list", "error_link", "error_frontmatter"}

AllTags == ErrorTags \cup {"frontmatter"}

NoTags == [t \in AllTags |-> {}]

(* text_area.tag_add(tag, index1, index2): nothing when index2 <= index1. *)
tag_add(tg, tag, i1, i2) == [tg EXCEPT ![tag] = @ \cup (i1..(i2 - 1))]

(* clear_error_tags *)
clear_error_tags(tg) == [t \in AllTags |-> IF t \in ErrorTags THEN {} ELSE tg[t]]

----------------------------------------------------------------------------
(* highlight_frontmatter *)
highlight_frontmatter(t, tg) ==
    LET content == Content(t)
        match   == FmMatch(content)
    IN  IF has_frontmatter(content) /\ match.matched
        THEN tag_add(tg, "frontmatter", 0, TkChars(content, match.end))
        ELSE tg

----------------------------------------------------------------------------
(* lint_markdown.  A diagnostic is one issues.append with its tag_add:     *)
(* ms, me are the offsets of the match in the string that was scanned,     *)
(* start, end the offsets in the widget that Tk resolves the two indices   *)
(* of the tag_add to.                                                      *)

Message ==
    [error_frontmatter |-> "Invalid YAML frontmatter",
     error_list        |-> "Missing space after list marker",
     error_heading     |-> "Missing space after heading #",
     error_link        |-> "Empty links detected"]

(* A variant of FrontmatterIssues with the diagnostic raised inside the    *)
(* "if content.strip()" block, so only when the body holds something.     *)
FrontmatterIssuesInBody(content) ==
    LET match == FmMatch(content)
    IN  IF has_frontmatter(content) /\ ~extract_frontmatter(content)
           /\ match.matched
           /\ \E k \in match.end..(Len(content) - 1) : ~IsSpace(At(content, k))
        THEN << [kind  |-> "error_frontmatter",
                 ms    |-> 0,
                 me    |-> match.end,
                 start |-> 0,
                 end   |-> TkChars(content, match.end)] >>
        ELSE <<>>

(* Lines 131-140: the frontmatter diagnostic. *)
FrontmatterIssues(content) ==
    LET match == FmMatch(content)
    IN  IF has_frontmatter(content) /\ ~extract_frontmatter(content)
           /\ match.matched
        THEN << [kind  |-> "error_frontmatter",
                 ms    |-> 0,
                 me    |-> match.end,
                 start |-> 0,
                 end   |-> TkChars(content, match.end)] >>
        ELSE <<>>

(* A variant of BodyToScan that leaves the frontmatter in. *)
BodyToScanWhole(content) == content

(* Lines 142-144: the string the body checks scan. *)
BodyToScan(content) ==
    IF has_frontmatter(content) THEN ReSubFm(content) ELSE content

(* content.strip() is not empty *)
StripNonEmpty(c) == \E k \in 0..(Len(c) - 1) : ~IsSpace(At(c, k))

(* Lines 153-162 (and 169-178, 185-194): the match's offsets in the scanned *)
(* string become "line.col", which the widget resolves in its own text.     *)
Located(widget, scanned, kind, m) ==
    [kind  |-> kind,
     ms    |-> m.ms,
     me    |-> m.me,
     start |-> TkLineCol(widget, LineOf(scanned, m.ms), ColOf(scanned, m.ms)),
     end   |-> TkLineCol(widget, LineOf(scanned, m.me), ColOf(scanned, m.me))]

LocatedAll(widget, scanned, kind, ms) ==
    [i \in 1..Len(ms) |-> Located(widget, scanned, kind, ms[i])]

(* Lines 146-194: the three body checks, in the code's order. *)
BodyIssues(widget, scanned) ==
    IF StripNonEmpty(scanned)
    THEN LocatedAll(widget, scanned, "error_list", FindList(scanned, 0))
         \o LocatedAll(widget, scanned, "error_heading", FindHeading(scanned, 0))
         \o LocatedAll(widget, scanned, "error_link", FindLink(scanned, 0))
    ELSE <<>>

RECURSIVE TagAll(_, _)
TagAll(tg, ds) ==
    IF ds = <<>> THEN tg
    ELSE TagAll(tag_add(tg, Head(ds).kind, Head(ds).start, Head(ds).end), Tail(ds))

Indicator(label, n) == [label |-> label, n |-> n]

(* Lines 196-200, with the tags the pass has set. *)
LintResult(tg, ds) ==
    [tags           |-> TagAll(clear_error_tags(tg), ds),
     diags          |-> ds,
     lint_indicator |-> IF ds # <<>> THEN Indicator("Issues", Len(ds))
                        ELSE Indicator("No Issues", 0)]

lint_markdown(t, tg) ==
    LintResult(tg, FrontmatterIssues(Content(t))
                   \o BodyIssues(Content(t), BodyToScan(Content(t))))

(* on_text_change: highlight_frontmatter, then lint_markdown (the line     *)
(* numbers, the preview and the status bar hold no state of the model).    *)
on_text_change(t, tg) == lint_markdown(t, highlight_frontmatter(t, tg))

----------------------------------------------------------------------------
(* mdformat.text, the body canonicalizer.  The library is not part of the  *)
(* repository; the model keeps the part of its canonical style that the    *)
(* model's documents exercise: every line loses its leading and trailing   *)
(* spaces, blank lines at either end go, a run of blank lines becomes one, *)
(* and a non-empty result ends with exactly one newline.                   *)

RECURSIVE SplitLines(_)
SplitLines(c) ==
    LET e == LineEnd(c, 0)
    IN  IF e = Len(c) THEN << c >>
        ELSE << Slice(c, 0, e) >> \o SplitLines(Slice(c, e + 1, Len(c)))

RECURSIVE StripSpaces(_)
StripSpaces(l) ==
    IF l = <<>> THEN l
    ELSE IF Head(l) = " " THEN StripSpaces(Tail(l))
    ELSE IF l[Len(l)] = " " THEN StripSpaces(SubSeq(l, 1, Len(l) - 1))
    ELSE l

RECURSIVE CanonLines(_, _, _)
CanonLines(ls, gap, started) ==
    IF ls = <<>> THEN <<>>
    ELSE LET l == StripSpaces(Head(ls))
         IN  IF l = <<>> THEN CanonLines(Tail(ls), started, started)
             ELSE (IF gap THEN <<NL>> ELSE <<>>) \o l \o <<NL>>
                  \o CanonLines(Tail(ls), FALSE, TRUE)

Canon(c) == CanonLines(SplitLines(c), FALSE, FALSE)

----------------------------------------------------------------------------
(* format_markdown.  raises: mdformat.text raises on this call. *)

(* A variant of formatted_content that formats the whole text. *)
formatted_whole(content) == Canon(content)

(* Lines 225-241: the text to write back. *)
formatted_content(content) ==
    IF has_frontmatter(content)
    THEN IF Len(ReSplitFm(content)) > 1
         THEN Group0(content) \o Canon(ReSplitFm(content)[2])
         ELSE Canon(content)
    ELSE Canon(content)

(* A variant of WriteBack without the delete: the old text stays behind   *)
(* the inserted one.                                                      *)
WriteBackNoDelete(t, new) == new \o t

(* Lines 243-244: delete(1.0, END) takes every character and every tag   *)
(* with it, insert(1.0, ...) puts the new text in the empty widget.      *)
WriteBack(t, new) == new

(* Lines 245-246: highlight_frontmatter on the new text, "Formatted". *)
Formatted(new) ==
    [text |-> new, tags |-> highlight_frontmatter(new, NoTags), ok |-> TRUE,
     lint_indicator |-> Indicator("Formatted", 0)]

(* A variant of FormatError in which the text area was emptied before     *)
(* mdformat.text raised.                                                  *)
FormatErrorAfterDelete(t, tg) ==
    [text |-> <<>>, tags |-> NoTags, ok |-> FALSE,
     lint_indicator |-> Indicator("Format Error", 0)]

(* Lines 247-249: the except branch; nothing was written back. *)
FormatError(t, tg) ==
    [text |-> t, tags |-> tg, ok |-> FALSE,
     lint_indicator |-> Indicator("Format Error", 0)]

format_markdown(t, tg, li, raises) ==
    IF raises THEN FormatError(t, tg)
    ELSE Formatted(WriteBack(t, formatted_content(Content(t))))

----------------------------------------------------------------------------
(* The documents a file can hold: an optional frontmatter-like head (an    *)
(* opening line, metadata, a closing line that may be well formed or not)  *)
(* followed by a body, both built from short pieces of markup.             *)

BodyChunks ==
    { <<NL>>, <<" ">>, <<"#">>, <<"#", "b">>, <<"-", "b">>, EmptyLink }

FmChunks ==
    { <<NL>>, <<"b">>, <<"#", "b">>, <<"-", "b">>, <<"[">>, <<"]">> }

SeqsUpTo(S, n) == UNION { [1..k -> S] : k \in 0..n }

Bodies == { Flatten(ss) : ss \in SeqsUpTo(BodyChunks, MaxBody) }

(* The metadata between the delimiters: nothing, one piece, or "[]". *)
FmContents == { <<>>, <<"[", "]">> } \cup FmChunks

OpenLine == <<"-", "-", "-", NL>>

CloseLines ==
    { <<NL, "-", "-", "-", NL>>,     \* a delimiter line after the metadata
      <<"-", "-", "-", NL>>,         \* no line break before the delimiter
      <<NL, "-", "-", "-">> }        \* no line break after the delimiter

Heads ==
    { <<>> } \cup { OpenLine \o f \o cl : f \in FmContents, cl \in CloseLines }

Docs == { h \o b : h \in Heads, b \in Bodies }

(* What a key press can put at the insert cursor: a typed character or a   *)
(* pasted delimiter.                                                       *)
KeyStrings == { Dashes, <<NL>>, <<"b">> }

----------------------------------------------------------------------------
(* The Tk text widget keeps a tag on the characters that carry it: text    *)
(* inserted without tags takes the tags its two neighbours share, deleted  *)
(* characters take theirs away, the others move with their character.      *)

InsertTags(tg, p, n) ==
    [t \in AllTags |->
        { o \in tg[t] : o < p }
        \cup { o + n : o \in { x \in tg[t] : x >= p } }
        \cup (IF (p - 1) \in tg[t] /\ p \in tg[t] THEN p..(p + n - 1) ELSE {})]

DeleteTags(tg, p) ==
    [t \in AllTags |->
        { o \in tg[t] : o < p } \cup { o - 1 : o \in { x \in tg[t] : x > p } }]

----------------------------------------------------------------------------
NoFmt == [kind |-> "none", before |-> <<>>, hadFm |-> FALSE, chain |-> FALSE]

(* A window in which a file was just opened: __init__, then open_file,    *)
(* which replaces the whole text by the file's content and calls neither  *)
(* highlight_frontmatter nor lint_markdown.                               *)
Init ==
    /\ text \in Docs
    /\ tags = NoTags
    /\ lint_indicator = Indicator("No Issues", 0)
    /\ diags = <<>>
    /\ synced = FALSE
    /\ fmt = NoFmt
    /\ edits = 0

(* The state after __init__: an empty text area, no tag set. *)
InitEdit ==
    /\ text = <<>>
    /\ tags = NoTags
    /\ lint_indicator = Indicator("No Issues", 0)
    /\ diags = <<>>
    /\ synced = FALSE
    /\ fmt = NoFmt
    /\ edits = 0

(* <KeyRelease>: on_text_change. *)
KeyRelease ==
    \E r \in {on_text_change(text, tags)} :
        /\ tags' = r.tags
        /\ diags' = r.diags
        /\ lint_indicator' = r.lint_indicator
        /\ synced' = TRUE
        /\ fmt' = NoFmt
        /\ UNCHANGED <<text, edits>>

(* The Format button: format_markdown. *)
FormatMarkdown(raises) ==
    \E r \in {format_markdown(text, tags, lint_indicator, raises)} :
        /\ edits < MaxFormats
        /\ text' = r.text
        /\ tags' = r.tags
        /\ lint_indicator' = r.lint_indicator
        /\ diags' = IF r.ok THEN <<>> ELSE diags
        /\ synced' = IF r.ok THEN FALSE ELSE synced
        /\ fmt' = [kind   |-> IF r.ok THEN "ok" ELSE "error",
                   before |-> text,
                   hadFm  |-> has_frontmatter(Content(text)),
                   chain  |-> fmt.kind = "ok" /\ ~fmt.hadFm]
        /\ edits' = IF r.ok THEN edits + 1 ELSE edits

(* <Key> with the insert cursor at the end of the text: the widget's own   *)
(* binding, on_text_change, runs first and sees the text as it was; the    *)
(* Text class binding then inserts s.                                      *)
KeyPress(s) ==
    \E r \in {on_text_change(text, tags)} :
        /\ edits < MaxEdits
        /\ text' = text \o s
        /\ tags' = InsertTags(r.tags, Len(text), Len(s))
        /\ lint_indicator' = r.lint_indicator
        /\ diags' = <<>>
        /\ synced' = FALSE
        /\ fmt' = NoFmt
        /\ edits' = edits + 1

(* <Key> BackSpace at the end of the text: on_text_change, then the class  *)
(* binding deletes the character before the cursor, if there is one.       *)
BackSpace ==
    \E r \in {on_text_change(text, tags)} :
        /\ edits < MaxEdits
        /\ text # <<>>
        /\ text' = SubSeq(text, 1, Len(text) - 1)
        /\ tags' = DeleteTags(r.tags, Len(text) - 1)
        /\ lint_indicator' = r.lint_indicator
        /\ diags' = <<>>
        /\ synced' = FALSE
        /\ fmt' = NoFmt
        /\ edits' = edits + 1

(* A session on an opened file: lint on a key release, format. *)
Next ==
    \/ KeyRelease
    \/ \E raises \in BOOLEAN : FormatMarkdown(raises)

Spec == Init /\ [][Next]_vars

(* A typing session in a new document. *)
NextEdit ==
    \/ \E s \in KeyStrings : KeyPress(s)
    \/ BackSpace
    \/ KeyRelease

SpecEdit == InitEdit /\ [][NextEdit]_vars

----------------------------------------------------------------------------
(* Properties.  Cur is the text as the handlers read it, Block the match   *)
(* of the frontmatter pattern in it, BodyOf the text after the block.      *)

Cur == Content(text)

Block == FmMatch(Cur)

BodyOf(c) == Slice(c, FmMatch(c).end, Len(c))

BodyDiags == { i \in 1..Len(diags) : diags[i].kind # "error_frontmatter" }

(* The three body checks stated as sets of <<kind, start, end>>, each by   *)
(* what it looks for rather than by how finditer walks the string.         *)
HeadingSet(s) ==
    { <<"error_heading", i, i + 2>> :
        i \in { k \in 0..(Len(s) - 2) :
                  At(s, k) = "#" /\ At(s, k + 1) # "#" /\ ~IsSpace(At(s, k + 1)) } }

LinkSet(s) ==
    { <<"error_link", i, i + 4>> :
        i \in { k \in 0..(Len(s) - 4) : StartsWithAt(s, k, EmptyLink) } }

(* The line starts from which only whitespace leads up to offset j. *)
LeadStarts(s, j) ==
    { i \in 0..j : (i = 0 \/ At(s, i - 1) = NL)
                   /\ \A k \in i..(j - 1) : IsSpace(At(s, k)) }

ListSet(s) ==
    { <<"error_list", SetMin(LeadStarts(s, j)), j + 2>> :
        j \in { k \in 0..(Len(s) - 2) :
                  /\ At(s, k) \in Markers
                  /\ ~IsSpace(At(s, k + 1))
                  /\ LeadStarts(s, k) # {} } }

ScanSet(s) == ListSet(s) \cup HeadingSet(s) \cup LinkSet(s)

(* C1: with a frontmatter block, every heading, list and link diagnostic   *)
(* has the range of its match in the body shifted by the block's length.   *)
C1_RangesShifted ==
    (synced /\ Block.matched) =>
        \A i \in BodyDiags :
            /\ diags[i].start = diags[i].ms + Block.end
            /\ diags[i].end = diags[i].me + Block.end

(* C2: a successful format of a text with a frontmatter block leaves the   *)
(* block as it was, character for character, and puts the canonicalized    *)
(* body, and nothing else, after it.                                       *)
C2_FrontmatterPreserved ==
    (fmt.kind = "ok" /\ fmt.hadFm) =>
        LET c == Content(fmt.before)
            k == FmMatch(c).end
        IN  /\ Len(text) >= k
            /\ \A i \in 0..(k - 1) : At(text, i) = At(c, i)
            /\ Slice(text, k, Len(text)) = Canon(Slice(c, k, Len(c)))

C2_Witness ==
    /\ fmt.kind = "ok"
    /\ fmt.hadFm
    /\ text # fmt.before
    /\ Len(text) > FmMatch(Content(fmt.before)).end

(* C3: a format on which the canonicalizer fails reports the failure and   *)
(* leaves the text as it was.                                              *)
C3_FailureKeepsText ==
    (fmt.kind = "error") =>
        /\ text = fmt.before
        /\ lint_indicator.label = "Format Error"

C3_Witness == fmt.kind = "error" /\ fmt.hadFm /\ text # <<>>

(* C4: with a frontmatter block, the heading, list and link diagnostics    *)
(* are those of the text after the block, and none comes from the block.   *)
C4_BodyOnly ==
    (synced /\ Block.matched) =>
        { <<diags[i].kind, diags[i].ms, diags[i].me>> : i \in BodyDiags }
            = ScanSet(BodyOf(Cur))

C4_Witness ==
    /\ synced
    /\ Block.matched
    /\ \E k \in 0..(Block.end - 2) : At(Cur, k) \in {"#", "-"} /\ At(Cur, k + 1) = "b"
    /\ BodyDiags # {}

(* C5: without a frontmatter block, the list diagnostics are exactly the   *)
(* two characters, marker and next character, of every line that starts    *)
(* with optional whitespace, a marker and a non-space character.           *)
LineStartOf(s, j) == SetMax({ i \in 0..j : i = 0 \/ At(s, i - 1) = NL })

MarkerLines(s) ==
    { j \in 0..(Len(s) - 2) :
        /\ At(s, j) \in Markers
        /\ ~IsSpace(At(s, j + 1))
        /\ \A k \in LineStartOf(s, j)..(j - 1) : IsSpace(At(s, k)) }

C5_MarkerAndCharOnly ==
    (synced /\ ~Block.matched) =>
        { <<diags[i].start, diags[i].end>> :
            i \in { n \in 1..Len(diags) : diags[n].kind = "error_list" } }
            = { <<j, j + 2>> : j \in MarkerLines(Cur) }

(* C6: a frontmatter block is found exactly when the text starts with a    *)
(* delimiter line and a later line, with zero or more lines between, is a  *)
(* delimiter line; without one the body is the whole text.                 *)
IsDelimiterLine(l) ==
    /\ Len(l) >= 3
    /\ SubSeq(l, 1, 3) = Dashes
    /\ \A k \in 4..Len(l) : l[k] = " "

(* The lines of c that end with a line break. *)
FullLines(c) == SubSeq(SplitLines(c), 1, Len(SplitLines(c)) - 1)

Envelope(c) ==
    LET ls == FullLines(c)
    IN  /\ Len(ls) >= 2
        /\ IsDelimiterLine(ls[1])
        /\ \E k \in 2..Len(ls) : IsDelimiterLine(ls[k])

C6_EnvelopeIffBlock ==
    synced =>
        /\ (tags["frontmatter"] # {}) <=> Envelope(Cur)
        /\ has_frontmatter(Cur) <=> Envelope(Cur)
        /\ ~Envelope(Cur) => BodyToScan(Cur) = Cur

(* C7: a lint pass reports the invalid frontmatter once, exactly when the  *)
(* text has a block whose content fails to parse, whatever the body holds, *)
(* and highlights the whole block, offsets 0 up to the block's length.     *)
InvalidBlock == Block.matched /\ YamlError(Slice(Cur, Block.g1s, Block.g1e))

C7_InvalidFrontmatterOnce ==
    synced =>
        LET fm == { i \in 1..Len(diags) : diags[i].kind = "error_frontmatter" }
        IN  /\ Cardinality(fm) = IF InvalidBlock THEN 1 ELSE 0
            /\ \A i \in fm : diags[i].start = 0 /\ diags[i].end = Block.end
            /\ tags["error_frontmatter"]
                   = IF InvalidBlock THEN 0..(Block.end - 1) ELSE {}

C7_Witness ==
    /\ synced
    /\ InvalidBlock
    /\ \A k \in Block.end..(Len(Cur) - 1) : IsSpace(At(Cur, k))
    /\ tags["error_frontmatter"] # {}

(* C8: every diagnostic of a lint pass has a non-empty range inside the    *)
(* text.                                                                   *)
C8_RangesNonEmpty ==
    synced =>
        \A i \in 1..Len(diags) :
            0 <= diags[i].start /\ diags[i].start < diags[i].end
                                /\ diags[i].end <= Len(Cur)

(* C9: formatting again the result of a successful format of a text        *)
(* without frontmatter gives that result back.                             *)
C9_FormatIdempotent ==
    (fmt.kind = "ok" /\ fmt.chain) => text = fmt.before

C9_Witness == fmt.kind = "ok" /\ fmt.chain /\ text # <<>>

(* C10: once on_text_change has run for the current text, the frontmatter  *)
(* tag is on the characters of the current frontmatter block and on no     *)
(* other character.                                                        *)
C10_HighlightCurrent ==
    synced =>
        tags["frontmatter"] = IF Block.matched THEN 0..(Block.end - 1) ELSE {}

====
